---- MODULE Spec2Model ----
(***************************************************************************)
(* Attendly backend (src/backend/app.py): the relational tables and the    *)
(* request handlers that write them.  Every handler is one atomic action   *)
(* (one HTTP request, one connection, one commit); the split-step          *)
(* specification SpecConc interleaves the read and the write of            *)
(* mark_employee_attendance.                                               *)
(*                                                                         *)
(* Encoding of SQL NULL / JSON null / a missing JSON key:                  *)
(*   strings  -> NULL ("NULL"),  ids, times and timestamps -> 0            *)
(* (AUTO_INCREMENT ids start at 1, and Python's `not x` is true for None   *)
(* and for 0 alike).                                                       *)
(***************************************************************************)
EXTENDS Integers, Sequences, FiniteSets, Bags, TLC

\* ---------------------------------------------------------------- bounds
MaxRequests == 3      \* requests served in one behaviour
MaxDay == 2           \* calendar days the server clock runs through
MaxTime == 2          \* distinct times of day (clock readings and supplied times)
MaxWorkers == 2       \* requests the server handles at the same time

\* ------------------------------------------------------------- constants
NULL == "NULL"
NoId == 0
NoTime == 0

Days == 1..MaxDay
Times == 1..MaxTime
OptTimes == {NoTime} \cup Times

\* ----------------------------------------------------------- str helpers
\* Strings that the code normalises are sequences of one-character strings.
LowerChar(c) ==
    CASE c = "A" -> "a"
      [] c = "B" -> "b"
      [] c = "C" -> "c"
      [] OTHER -> c

\* str.lower()
Lower(s) == [i \in DOMAIN s |-> LowerChar(s[i])]

IsSpace(c) == c = " "

RECURSIVE LStrip(_)
LStrip(s) == IF s # <<>> /\ IsSpace(Head(s)) THEN LStrip(Tail(s)) ELSE s

RECURSIVE RStrip(_)
RStrip(s) ==
    IF s # <<>> /\ IsSpace(s[Len(s)]) THEN RStrip(SubSeq(s, 1, Len(s) - 1)) ELSE s

\* str.strip()
Strip(s) == RStrip(LStrip(s))

\* employee['email'].lower().strip() if employee['email'] else ''
NormalizeEmail(s) == IF s = <<>> THEN <<>> ELSE Strip(Lower(s))

\* ------------------------------------------------------------- variables
VARIABLES
    users,                \* table users
    employees,            \* table employees
    employee_attendance,  \* table employee_attendance
    attendance,           \* table attendance
    today,                \* date.today() of the server
    nreq,                 \* requests served so far
    req,                  \* the request served last
    resp,                 \* its response
    before,               \* the tables and the date as that request found them
    ever_present,         \* the (employee, date) pairs whose row has once been
                          \* present or checked_out
    ever_deleted,         \* the employees delete_employee has deleted
    txn,                  \* SpecConc: the requests in flight
    tokens,               \* the tokens login has issued
    admitted,             \* the tokens an admin-gated handler has run with
    authorization,        \* the Authorization header of the request served last
    connections,          \* the connections of get_db_connection() that are open
    collation             \* the server's collation of VARCHAR columns

vars == <<users, employees, employee_attendance, attendance, today, nreq, req, resp,
          before, ever_present, txn, collation, ever_deleted, tokens, admitted,
          authorization, connections>>
session == <<tokens, admitted, authorization>>
tables == <<users, employees, employee_attendance, attendance>>

\* ------------------------------------------------------------ SQL helpers
Max(S) == CHOOSE m \in S : \A x \in S : x <= m

\* AUTO_INCREMENT PRIMARY KEY of the next inserted row (rows are never removed)
NextId(table) == IF table = {} THEN 1 ELSE Max({r.id : r \in table}) + 1

\* cursor.fetchone(): a row of the result set, or None (NoRow)
NoRow == [id |-> NoId]
FetchOne(rows) == IF rows = {} THEN NoRow ELSE CHOOSE r \in rows : \A o \in rows : r.id <= o.id

\* `col = %s` on a VARCHAR column.  The tables are created without a COLLATE
\* clause, so the comparison is the server default's: byte-wise ("binary"),
\* or case-insensitive with trailing spaces ignored ("general_ci").
SqlEq(a, b) ==
    IF collation = "binary" THEN a = b ELSE RStrip(Lower(a)) = RStrip(Lower(b))

\* ------------------------------------------------------------- responses
Response(op, code, message) ==
    [op |-> op, code |-> code, message |-> message, detail |-> <<>>,
     employee_id |-> NoId, status |-> NULL, body |-> {}]

\* a key the body does not have, where the value would be a string read
\* character by character
Missing == <<NULL>>

\* a JSON body of add_employee or signup with none of its keys
NoData ==
    [name |-> <<>>, email |-> <<>>, department |-> NULL, employee_id |-> <<>>,
     password |-> Missing]

NoRequest ==
    [op |-> "none", current_user |-> NoId, employee_id |-> NoId, action |-> NULL,
     status |-> NULL, check_in |-> NoTime, check_out |-> NoTime, now |-> NoTime,
     has_time |-> FALSE, time |-> NoTime, location |-> NULL, data |-> NoData,
     limit |-> 0, date |-> 0]

Snapshot ==
    [users |-> users, employees |-> employees,
     employee_attendance |-> employee_attendance, attendance |-> attendance,
     today |-> today, tokens |-> tokens]

\* a request without an Authorization header; `at` is the clock's reading
\* when the header is looked at
NoToken ==
    [user_id |-> NoId, email |-> <<>>, employee_id |-> <<>>, exp |-> NoTime,
     key |-> NULL]
NoHeader == [present |-> FALSE, bearer |-> FALSE, token |-> NoToken, at |-> NoTime]

\* ------------------------------------------- mark_employee_attendance
Statuses == {"present", "absent", "late", "checked_out"}
\* what a client can send as `status`: nothing, a value of the enum, anything else
StatusInputs == {NULL} \cup Statuses \cup {"half-day"}
\* what a client can send as `action` ("noop": any string but the two the code knows)
ActionInputs == {"check_in", "check_out", "noop"}

Ok == Response("", 0, "")

\* the checks on the request body
MarkValidate(employee_id, status, action) ==
    IF employee_id = NoId
    THEN Response("mark_employee_attendance", 400, "Employee ID is required")
    ELSE IF action = "check_in" /\ status = NULL
    THEN Response("mark_employee_attendance", 400, "Status is required for check-in")
    ELSE IF status # NULL /\ status \notin Statuses
    THEN Response("mark_employee_attendance", 400, "Invalid status")
    ELSE Ok

EmployeeById(emps, employee_id) == FetchOne({e \in emps : e.id = employee_id})
UserById(usrs, user_id) == FetchOne({u \in usrs : u.id = user_id})

\* mutant: the ownership check lets an admin through
MarkAuthorizeAdminBypass(usrs, emps, current_user, employee_id) ==
    LET employee == EmployeeById(emps, employee_id)
        user == UserById(usrs, current_user)
    IN  IF employee.id = NoId
        THEN Response("mark_employee_attendance", 404, "Employee not found")
        ELSE IF user.id = NoId
        THEN Response("mark_employee_attendance", 404, "User not found")
        ELSE IF ~user.is_admin
                /\ NormalizeEmail(employee.email) # NormalizeEmail(user.email)
        THEN Response("mark_employee_attendance", 403, "You can only mark your own attendance")
        ELSE Ok

\* the employee and user lookups and the ownership check
MarkAuthorize(usrs, emps, current_user, employee_id) ==
    LET employee == EmployeeById(emps, employee_id)
        user == UserById(usrs, current_user)
    IN  IF employee.id = NoId
        THEN Response("mark_employee_attendance", 404, "Employee not found")
        ELSE IF user.id = NoId
        THEN Response("mark_employee_attendance", 404, "User not found")
        ELSE IF NormalizeEmail(employee.email) # NormalizeEmail(user.email)
        THEN Response("mark_employee_attendance", 403, "You can only mark your own attendance")
        ELSE Ok

\* mutant: the SELECT has no `AND date = %s`
ExistingAttendanceAnyDay(rows, employee_id, date) ==
    FetchOne({r \in rows : r.employee_id = employee_id})

\* SELECT * FROM employee_attendance WHERE employee_id = %s AND date = %s; fetchone()
ExistingAttendance(rows, employee_id, date) ==
    FetchOne({r \in rows : r.employee_id = employee_id /\ r.date = date})

\* mutant: the supplied time is ignored
OrNowIgnoresSupplied(supplied, current_time) == current_time

\* x if x else current_time
OrNow(supplied, current_time) == IF supplied # NoTime THEN supplied ELSE current_time

\* current_status in ['present', 'checked_out'] and status in ['absent', 'late']
DowngradeBlocked(current_status, status) ==
    current_status \in {"present", "checked_out"} /\ status \in {"absent", "late"}

\* mutant: only a repeat of the very same marking is refused
DuplicateNegativeSameOnly(current_status, status) ==
    current_status = status /\ status \in {"absent", "late"}

\* current_status in ['absent', 'late'] and status in ['absent', 'late']
DuplicateNegative(current_status, status) ==
    current_status \in {"absent", "late"} /\ status \in {"absent", "late"}

\* mutant: check-out goes ahead without a row
CheckOutAlways(existing) == TRUE

\* mutant: a second check-out of the day is refused
CheckOutOnlyOnce(existing) == existing.id # NoId /\ existing.status # "checked_out"

\* `if existing:` of the check-out branch
CheckOutAllowed(existing) == existing.id # NoId

Reject(response) == [kind |-> "reject", status |-> NULL, time |-> NoTime, resp |-> response]

\* The branch the handler takes on the row it read: a rejection, or the
\* statements it goes on to execute.
MarkDecide(existing, status, action, check_in_time, check_out_time, current_time) ==
    IF action = "check_out"
    THEN IF CheckOutAllowed(existing)
         THEN [kind |-> "check_out", status |-> "checked_out",
               time |-> OrNow(check_out_time, current_time), resp |-> Ok]
         ELSE Reject(Response("mark_employee_attendance", 400,
                              "No check-in record found for today. Please check in first."))
    ELSE IF existing.id # NoId
         THEN IF DowngradeBlocked(existing.status, status)
              THEN Reject([Response("mark_employee_attendance", 400, "Cannot change status")
                             EXCEPT !.detail = <<existing.status, status>>])
              ELSE IF DuplicateNegative(existing.status, status)
              THEN Reject([Response("mark_employee_attendance", 400, "Attendance already marked")
                             EXCEPT !.detail = <<existing.status, status>>])
              ELSE [kind |-> "update", status |-> status,
                    time |-> OrNow(check_in_time, current_time), resp |-> Ok]
         ELSE [kind |-> "insert", status |-> status,
               time |-> OrNow(check_in_time, current_time), resp |-> Ok]

\* mutant: the table has no unique key
NoUniqueKey(rows, employee_id, date) == TRUE

\* UNIQUE KEY unique_employee_daily_attendance (employee_id, date)
UniqueEmployeeDaily(rows, employee_id, date) ==
    ~ \E r \in rows : r.employee_id = employee_id /\ r.date = date

\* UPDATE employees SET status = %s WHERE id = %s
SetEmployeeStatus(emps, employee_id, status) ==
    {IF e.id = employee_id THEN [e EXCEPT !.status = status] ELSE e : e \in emps}

\* mutant: INSERT ... ON DUPLICATE KEY UPDATE status, check_in
InsertOrUpdate(d, rows, emps, employee, date) ==
    [raised |-> FALSE,
     employee_attendance |->
         IF UniqueEmployeeDaily(rows, employee.id, date)
         THEN rows \cup {[id |-> NextId(rows), employee_id |-> employee.id,
                          employee_name |-> employee.name, date |-> date,
                          check_in |-> d.time, check_out |-> NoTime,
                          status |-> d.status]}
         ELSE {IF r.employee_id = employee.id /\ r.date = date
               THEN [r EXCEPT !.status = d.status, !.check_in = d.time]
               ELSE r : r \in rows},
     employees |-> SetEmployeeStatus(emps, employee.id, d.status)]

\* The INSERT of the first check-in of the day, then the UPDATE of the
\* employee's status; the INSERT raises on the unique key and the UPDATE is
\* not reached.
InsertAttendance(d, rows, emps, employee, date) ==
    IF UniqueEmployeeDaily(rows, employee.id, date)
    THEN [raised |-> FALSE,
          employee_attendance |->
              rows \cup {[id |-> NextId(rows), employee_id |-> employee.id,
                          employee_name |-> employee.name, date |-> date,
                          check_in |-> d.time, check_out |-> NoTime,
                          status |-> d.status]},
          employees |-> SetEmployeeStatus(emps, employee.id, d.status)]
    ELSE [raised |-> TRUE, employee_attendance |-> rows, employees |-> emps]

\* The statements of the chosen branch, run against the committed tables.
\* raised: a statement raised (the duplicate key), nothing is committed.
MarkExecute(d, rows, emps, employee, date) ==
    CASE d.kind = "check_out" ->
           [raised |-> FALSE,
            employee_attendance |->
                {IF r.employee_id = employee.id /\ r.date = date
                 THEN [r EXCEPT !.check_out = d.time, !.status = "checked_out"]
                 ELSE r : r \in rows},
            employees |-> SetEmployeeStatus(emps, employee.id, "checked_out")]
      [] d.kind = "update" ->
           [raised |-> FALSE,
            employee_attendance |->
                {IF r.employee_id = employee.id /\ r.date = date
                 THEN [r EXCEPT !.status = d.status, !.check_in = d.time]
                 ELSE r : r \in rows},
            employees |-> SetEmployeeStatus(emps, employee.id, d.status)]
      [] d.kind = "insert" -> InsertAttendance(d, rows, emps, employee, date)
      [] OTHER ->
           [raised |-> FALSE, employee_attendance |-> rows, employees |-> emps]

\* the (employee, date) pairs of the rows now present or checked_out
OnceMarkedIn(rows) ==
    {<<r.employee_id, r.date>> : r \in {x \in rows : x.status \in {"present", "checked_out"}}}

\* mutant: the handler commits and then answers 400
MarkSuccessAnswers400(employee_id, status) ==
    [Response("mark_employee_attendance", 400, "Attendance marked successfully")
        EXCEPT !.employee_id = employee_id, !.status = status]

MarkSuccess(employee_id, status) ==
    [Response("mark_employee_attendance", 200, "Attendance marked successfully")
        EXCEPT !.employee_id = employee_id, !.status = status]

MarkError == Response("mark_employee_attendance", 500, "An error occurred")

\* the request reaches date.today() / datetime.now()
MarkReachesClock(current_user, employee_id, status, action) ==
    /\ MarkValidate(employee_id, status, action) = Ok
    /\ MarkAuthorize(users, employees, current_user, employee_id) = Ok

MarkRequest(current_user, employee_id, status, action, check_in_time, check_out_time, current_time) ==
    [NoRequest EXCEPT !.op = "mark_employee_attendance", !.current_user = current_user,
                      !.employee_id = employee_id, !.action = action, !.status = status,
                      !.check_in = check_in_time, !.check_out = check_out_time,
                      !.now = current_time]

\* POST /api/employee-attendance, served start to finish
MarkEmployeeAttendance(current_user, employee_id, status, action, check_in_time, check_out_time, current_time) ==
    LET v == MarkValidate(employee_id, status, action)
        a == MarkAuthorize(users, employees, current_user, employee_id)
        employee == EmployeeById(employees, employee_id)
        existing == ExistingAttendance(employee_attendance, employee_id, today)
        d == MarkDecide(existing, status, action, check_in_time, check_out_time, current_time)
        x == MarkExecute(d, employee_attendance, employees, employee, today)
    IN  /\ nreq' = nreq + 1
        /\ req' = MarkRequest(current_user, employee_id, status, action,
                              check_in_time, check_out_time, current_time)
        /\ before' = Snapshot
        /\ IF v # Ok THEN resp' = v /\ UNCHANGED <<employees, employee_attendance>>
           ELSE IF a # Ok THEN resp' = a /\ UNCHANGED <<employees, employee_attendance>>
           ELSE IF d.kind = "reject"
           THEN resp' = d.resp /\ UNCHANGED <<employees, employee_attendance>>
           ELSE IF x.raised
           THEN resp' = MarkError /\ UNCHANGED <<employees, employee_attendance>>
           ELSE /\ resp' = MarkSuccess(employee_id, status)
                /\ employee_attendance' = x.employee_attendance
                /\ employees' = x.employees
        /\ ever_present' = ever_present \cup OnceMarkedIn(employee_attendance')
        /\ UNCHANGED <<users, attendance, today, txn, collation, ever_deleted>>

\* -------------------------------------------------------- seeded tables
\* bcrypt.generate_password_hash / check_password_hash
PasswordHash(password) == <<"bcrypt", password>>
CheckPasswordHash(hash, password) == hash = PasswordHash(password)

User(id, name, email, password, employee_id, is_admin) ==
    [id |-> id, name |-> name, email |-> email, password |-> PasswordHash(password),
     employee_id |-> employee_id, is_admin |-> is_admin]

Employee(id, name, email, department) ==
    [id |-> id, user_id |-> NoId, name |-> name, email |-> email,
     department |-> department, status |-> "absent", is_active |-> TRUE,
     deleted_at |-> NoTime]

\* Two accounts made by signup (the first one promoted to admin in the
\* database, which no endpoint does), and the employee records an admin
\* added for them; each record's email is its owner's up to case and
\* surrounding blanks.
SeedUsers ==
    {User(1, <<"A", "l">>, <<"A", " ">>, <<"s","e","c","r","e","t","1">>, <<"0","0","0","0","0","1">>, TRUE),
     User(2, <<"b", "o">>, <<"b">>, <<"s","e","c","r","e","t","2">>, <<"0","0","0","0","0","2">>, FALSE)}

SeedEmployees ==
    {Employee(1, <<"a", "l">>, <<"a">>, "ops"),
     Employee(2, <<"B", "o">>, <<"B", " ">>, "dev")}

\* --------------------------------------- SpecAtt: the attendance lifecycle
InitAtt ==
    /\ users = SeedUsers
    /\ employees = SeedEmployees
    /\ employee_attendance = {}
    /\ attendance = {}
    /\ today = 1
    /\ tokens = {}
    /\ nreq = 0
    /\ req = NoRequest
    /\ resp = Response("none", 0, "")
    /\ before = Snapshot
    /\ ever_present = {}
    /\ ever_deleted = {}
    /\ admitted = {}
    /\ authorization = NoHeader
    /\ connections = 0
    /\ txn = <<>>
    /\ collation = "general_ci"

CallerIds == {u.id : u \in users} \cup {NextId(users)}
EmployeeIdInputs == {NoId} \cup {e.id : e \in employees} \cup {NextId(employees)}

\* req, resp and before describe the request just served.  Forget drops them
\* when the server turns to the next request; a behaviour serves at most
\* MaxRequests requests and ends with the first one that leaves every table
\* as it found it (the server is then where the shorter behaviour without
\* that request left it).
NoResponse == Response("none", 0, "")

\* Every handler opens its connection with get_db_connection() and calls
\* cursor.close() and conn.close() before each return of its try block.  Its
\* except clause returns the 500 without closing: the connection the handler
\* opened is still open when it has returned.
Unreleased(response) == IF response.code = 500 THEN 1 ELSE 0

\* a handler served from its first statement to its return
Served == connections' = connections + Unreleased(resp')

Ready == req.op = "none" /\ nreq < MaxRequests

Forget ==
    /\ req.op # "none"
    /\ Snapshot # before
    /\ req' = NoRequest
    /\ resp' = NoResponse
    /\ before' = Snapshot
    /\ authorization' = NoHeader
    /\ UNCHANGED <<users, employees, employee_attendance, attendance, today, nreq,
                   ever_present, txn, collation, ever_deleted, tokens, admitted,
                   connections>>

\* the server's calendar date moves on (a step of the behaviour's budget)
NextDay ==
    /\ Ready
    /\ today < MaxDay
    /\ today' = today + 1
    /\ nreq' = nreq + 1
    /\ before' = [before EXCEPT !.today = today + 1]
    /\ UNCHANGED <<users, employees, employee_attendance, attendance, req, resp,
                   ever_present, txn, collation, ever_deleted, session,
                   connections>>

\* A request either carries a time of its own or leaves it to the server's
\* clock; the clock reading of a request that carries one is not used.
TimeInputs == {[supplied |-> t, now |-> 1] : t \in Times}
                  \cup {[supplied |-> NoTime, now |-> t] : t \in Times}
NoTimeInput == {[supplied |-> NoTime, now |-> NoTime]}

MarkStep ==
    /\ Ready
    /\ UNCHANGED session
    /\ \E current_user \in CallerIds, employee_id \in EmployeeIdInputs,
          status \in StatusInputs, action \in ActionInputs :
         \E t \in IF MarkReachesClock(current_user, employee_id, status, action)
                  THEN TimeInputs ELSE NoTimeInput :
             MarkEmployeeAttendance(current_user, employee_id, status, action,
                 IF action = "check_out" THEN NoTime ELSE t.supplied,
                 IF action = "check_out" THEN t.supplied ELSE NoTime,
                 t.now)
    /\ Served

NextAtt == MarkStep \/ Forget

SpecAtt == InitAtt /\ [][NextAtt]_vars

\* ------------------------------------------- self-service attendance
\* data.get('time', <the clock>): the value under the key if the key is there
\* (JSON null included), the clock's otherwise
GetTime(has_time, time, current_time) == IF has_time THEN time ELSE current_time

\* data.get('location', 'Office')
GetLocation(location) == IF location = NULL THEN "Office" ELSE location

\* SELECT * FROM attendance WHERE user_id = %s AND date = %s; fetchone()
TodaysAttendance(rows, user_id, date) ==
    FetchOne({r \in rows : r.user_id = user_id /\ r.date = date})

\* mutant: the check for today's row is left to the unique key
AlreadyCheckedInNever(existing) == FALSE

\* `if existing:` of check_in
AlreadyCheckedIn(existing) == existing.id # NoId

\* UNIQUE KEY unique_daily_attendance (user_id, date)
UniqueDaily(rows, user_id, date) ==
    ~ \E r \in rows : r.user_id = user_id /\ r.date = date

\* FOREIGN KEY (user_id) REFERENCES users(id)
UserExists(usrs, user_id) == \E u \in usrs : u.id = user_id

\* INSERT INTO attendance (user_id, date, check_in, location, status)
NewAttendance(rows, user_id, date, check_in_time, location) ==
    [id |-> NextId(rows), user_id |-> user_id, date |-> date, check_in |-> check_in_time,
     check_out |-> NoTime, status |-> "present", location |-> location]

SelfRequest(op, current_user, has_time, time, location, current_time) ==
    [NoRequest EXCEPT !.op = op, !.current_user = current_user, !.has_time = has_time,
                      !.time = time, !.location = location, !.now = current_time]

\* POST /api/attendance/check-in
CheckIn(current_user, has_time, time, location, current_time) ==
    LET check_in_time == GetTime(has_time, time, current_time)
        existing == TodaysAttendance(attendance, current_user, today)
    IN  /\ nreq' = nreq + 1
        /\ req' = SelfRequest("check_in", current_user, has_time, time, location, current_time)
        /\ before' = Snapshot
        /\ IF AlreadyCheckedIn(existing)
           THEN /\ resp' = Response("check_in", 400, "Already checked in today")
                /\ UNCHANGED attendance
           ELSE IF ~UserExists(users, current_user)
                   \/ ~UniqueDaily(attendance, current_user, today)
           THEN /\ resp' = Response("check_in", 500, "An error occurred during check-in")
                /\ UNCHANGED attendance
           ELSE /\ resp' = Response("check_in", 200, "Check-in successful")
                /\ attendance' = attendance \cup
                      {NewAttendance(attendance, current_user, today, check_in_time,
                                     GetLocation(location))}
        /\ UNCHANGED <<users, employees, employee_attendance, today, ever_present, txn,
                       collation, ever_deleted>>

\* mutant: the UPDATE has no WHERE clause
SetCheckOutEveryRow(rows, id, check_out_time) ==
    {[r EXCEPT !.check_out = check_out_time] : r \in rows}

\* UPDATE attendance SET check_out = %s WHERE id = %s
SetCheckOut(rows, id, check_out_time) ==
    {IF r.id = id THEN [r EXCEPT !.check_out = check_out_time] ELSE r : r \in rows}

\* POST /api/attendance/check-out
CheckOut(current_user, has_time, time, current_time) ==
    LET check_out_time == GetTime(has_time, time, current_time)
        existing == TodaysAttendance(attendance, current_user, today)
    IN  /\ nreq' = nreq + 1
        /\ req' = SelfRequest("check_out", current_user, has_time, time, NULL, current_time)
        /\ before' = Snapshot
        /\ IF existing.id = NoId
           THEN /\ resp' = Response("check_out", 400, "No check-in record found for today")
                /\ UNCHANGED attendance
           ELSE /\ resp' = Response("check_out", 200, "Check-out successful")
                /\ attendance' = SetCheckOut(attendance, existing.id, check_out_time)
        /\ UNCHANGED <<users, employees, employee_attendance, today, ever_present, txn,
                       collation, ever_deleted>>

\* the `time` a body can hold, with the clock reading of the request
SelfTimeInputs ==
    {[has_time |-> FALSE, time |-> NoTime, now |-> t] : t \in Times}
        \cup {[has_time |-> TRUE, time |-> t, now |-> 1] : t \in OptTimes}
LocationInputs == {NULL, "Home"}

CheckInStep ==
    /\ Ready
    /\ UNCHANGED session
    /\ \E current_user \in CallerIds, t \in SelfTimeInputs, location \in LocationInputs :
          CheckIn(current_user, t.has_time, t.time, location, t.now)
    /\ Served

CheckOutStep ==
    /\ Ready
    /\ UNCHANGED session
    /\ \E current_user \in CallerIds, t \in SelfTimeInputs :
          CheckOut(current_user, t.has_time, t.time, t.now)
    /\ Served

NextSelf == CheckInStep \/ CheckOutStep \/ NextDay \/ Forget

SpecSelf == InitAtt /\ [][NextSelf]_vars

\* ------------------------------ claims about mark_employee_attendance
Marked == req.op = "mark_employee_attendance"

\* the target employee and the caller, as the request found them
ReqEmployee == {e \in before.employees : e.id = req.employee_id}
ReqCaller == {u \in before.users : u.id = req.current_user}

\* the request body passes the handler's checks on it
BodyAccepted ==
    /\ req.employee_id # NoId
    /\ req.action = "check_in" => req.status # NULL
    /\ req.status \in Statuses \cup {NULL}

\* the caller's email is the target employee's, lower-cased and trimmed
OwnRecord ==
    \E e \in ReqEmployee, u \in ReqCaller : NormalizeEmail(e.email) = NormalizeEmail(u.email)

\* the request gets as far as the attendance state machine
Processed == Marked /\ BodyAccepted /\ OwnRecord

\* the rows of (target employee, day of the request), before and after it
RowsBefore ==
    {r \in before.employee_attendance :
        r.employee_id = req.employee_id /\ r.date = before.today}
RowsAfter ==
    {r \in employee_attendance : r.employee_id = req.employee_id /\ r.date = before.today}

TimeUsed(supplied) == IF supplied # NoTime THEN supplied ELSE req.now

EmployeeStatusAfter == {e.status : e \in {x \in employees : x.id = req.employee_id}}

\* C1: once the row of (employee, day) has been present or checked_out, no
\* later sequence of calls leaves it absent or late, and a check-in that asks
\* for absent or late on such a row is answered 400.
C1_OncePresentNeverAbsentOrLate ==
    /\ \A r \in employee_attendance :
          <<r.employee_id, r.date>> \in ever_present => r.status \notin {"absent", "late"}
    /\ (/\ Processed
        /\ req.action = "check_in"
        /\ req.status \in {"absent", "late"}
        /\ \E r \in RowsBefore : r.status \in {"present", "checked_out"})
       => resp.code = 400

\* C3: with a body the handler accepts, an existing employee and an existing
\* caller whose normalised emails differ, the answer is 403, admin or not.
C3_SelfServiceOnly ==
    (/\ Marked
     /\ BodyAccepted
     /\ ReqEmployee # {}
     /\ ReqCaller # {}
     /\ ~OwnRecord)
    => resp.code = 403

\* an admin is refused another employee's record
C3_Witness ==
    /\ Marked
    /\ BodyAccepted
    /\ ReqEmployee # {}
    /\ \E u \in ReqCaller : u.is_admin
    /\ ~OwnRecord
    /\ resp.code = 403

\* C4: on a row that is absent or late, a check-in asking for absent or late
\* is answered 400; one asking for present is accepted and rewrites the status
\* and the check-in time of that same row, adding no row.
C4_NegativeRowCorrection ==
    (/\ Processed
     /\ req.action = "check_in"
     /\ \E r \in RowsBefore : r.status \in {"absent", "late"})
    => /\ req.status \in {"absent", "late"} =>
            /\ resp.code = 400
            /\ resp.message = "Attendance already marked"
            /\ employee_attendance = before.employee_attendance
       /\ req.status = "present" =>
            /\ resp.code = 200
            /\ {r.id : r \in employee_attendance} = {r.id : r \in before.employee_attendance}
            /\ Cardinality(employee_attendance) = Cardinality(before.employee_attendance)
            /\ \A r \in RowsBefore :
                  [r EXCEPT !.status = "present", !.check_in = TimeUsed(req.check_in)]
                      \in employee_attendance

\* a late row corrected to present, with a new check-in time
C4_Witness ==
    /\ Processed
    /\ req.action = "check_in"
    /\ req.status = "present"
    /\ resp.code = 200
    /\ \E r \in RowsBefore, n \in RowsAfter :
          /\ r.status = "late"
          /\ n.id = r.id
          /\ n.status = "present"
          /\ n.check_in # r.check_in

\* C5: a check-out that finds no row of (employee, today) is answered 400
\* "no check-in found", adds no row and changes no employee's status.
C5_CheckOutNeedsRow ==
    (Processed /\ req.action = "check_out" /\ RowsBefore = {})
    => /\ resp.code = 400
       /\ resp.message = "No check-in record found for today. Please check in first."
       /\ employee_attendance = before.employee_attendance
       /\ employees = before.employees

C5_Witness ==
    /\ Processed
    /\ req.action = "check_out"
    /\ RowsBefore = {}
    /\ before.employee_attendance # {}
    /\ resp.code = 400

\* C6: a check-in that finds no row of (employee, today) adds exactly one row,
\* of (employee, today), with the requested status and the supplied check-in
\* time (the clock's if none was supplied), and sets the employee's status to
\* the requested one.
C6_FirstCheckInCreatesRow ==
    (Processed /\ req.action = "check_in" /\ RowsBefore = {})
    => /\ resp.code = 200
       /\ before.employee_attendance \subseteq employee_attendance
       /\ Cardinality(employee_attendance) = Cardinality(before.employee_attendance) + 1
       /\ Cardinality(RowsAfter) = 1
       /\ \A r \in RowsAfter :
             r.status = req.status /\ r.check_in = TimeUsed(req.check_in)
       /\ EmployeeStatusAfter = {req.status}

\* a first check-in without a time of its own, marked late
C6_Witness ==
    /\ Processed
    /\ req.action = "check_in"
    /\ RowsBefore = {}
    /\ req.status = "late"
    /\ req.check_in = NoTime
    /\ \E r \in RowsAfter : r.status = "late" /\ r.check_in = req.now
    /\ EmployeeStatusAfter = {"late"}

\* C7: a check-out that finds the row of (employee, today) is accepted
\* whatever that row's status: row and employee become checked_out and the
\* check-out time is set; on a row already checked_out nothing but the
\* check-out time changes.
C7_CheckOutUnconditional ==
    (Processed /\ req.action = "check_out" /\ RowsBefore # {})
    => /\ resp.code = 200
       /\ \A r \in RowsBefore :
             [r EXCEPT !.status = "checked_out", !.check_out = TimeUsed(req.check_out)]
                 \in employee_attendance
       /\ Cardinality(employee_attendance) = Cardinality(before.employee_attendance)
       /\ EmployeeStatusAfter = {"checked_out"}
       /\ \A r \in RowsBefore :
             r.status = "checked_out" =>
                 employee_attendance =
                     (before.employee_attendance \ {r})
                         \cup {[r EXCEPT !.check_out = TimeUsed(req.check_out)]}

\* a second check-out of the day, with a later time
C7_Witness ==
    /\ Processed
    /\ req.action = "check_out"
    /\ resp.code = 200
    /\ \E r \in RowsBefore, n \in RowsAfter :
          /\ r.status = "checked_out"
          /\ n.status = "checked_out"
          /\ r.check_out # NoTime
          /\ n.check_out # r.check_out

\* ------------------------------------ claims about self-service attendance
\* the caller's rows of the day of the request, before and after it
OwnRowsBefore ==
    {r \in before.attendance : r.user_id = req.current_user /\ r.date = before.today}
OwnRowsAfter ==
    {r \in attendance : r.user_id = req.current_user /\ r.date = before.today}

SelfTimeUsed == IF req.has_time THEN req.time ELSE req.now

OtherTablesKept ==
    /\ users = before.users
    /\ employees = before.employees
    /\ employee_attendance = before.employee_attendance

\* C8: no two attendance rows share (user, date), and a check-in by a user who
\* has a row for today is answered 400 and leaves the table as it was.
C8_OneCheckInPerDay ==
    /\ \A r1, r2 \in attendance :
          (r1.user_id = r2.user_id /\ r1.date = r2.date) => r1 = r2
    /\ (req.op = "check_in" /\ OwnRowsBefore # {})
       => resp.code = 400 /\ attendance = before.attendance

\* a second check-in of the day, refused, while another user has a row too
C8_Witness ==
    /\ req.op = "check_in"
    /\ resp.code = 400
    /\ OwnRowsAfter # {}
    /\ \E r \in attendance : r.user_id # req.current_user

\* C9: a check-out by a caller without a row for today is answered 400 and
\* changes nothing; with a row it is accepted, every time, and changes that
\* row's check-out time and nothing else.
C9_CheckOutSetsOnlyTime ==
    req.op = "check_out"
    => /\ OwnRowsBefore = {} =>
            /\ resp.code = 400
            /\ attendance = before.attendance
            /\ OtherTablesKept
       /\ \A r \in OwnRowsBefore :
            /\ resp.code = 200
            /\ attendance =
                   (before.attendance \ {r}) \cup {[r EXCEPT !.check_out = SelfTimeUsed]}
            /\ OtherTablesKept

\* a repeated check-out, while another row is in the table
C9_Witness ==
    /\ req.op = "check_out"
    /\ resp.code = 200
    /\ \E r \in OwnRowsBefore, n \in OwnRowsAfter :
          /\ r.check_out # NoTime
          /\ n.check_out # r.check_out
          /\ n.check_in = r.check_in
          /\ n.status = r.status

\* ------------------------------------------- employee administration
\* mutant: a caller once let through is let through again
AdminRequiredOnce(usrs, current_user, op) ==
    LET user == UserById(usrs, current_user)
    IN  IF \E t \in admitted : t.user_id = current_user
        THEN Ok
        ELSE IF user.id = NoId \/ ~user.is_admin
        THEN Response(op, 403, "Admin access required")
        ELSE Ok

\* admin_required: the caller's row must exist and carry is_admin
AdminRequired(usrs, current_user, op) ==
    LET user == UserById(usrs, current_user)
    IN  IF user.id = NoId \/ ~user.is_admin
        THEN Response(op, 403, "Admin access required")
        ELSE Ok

\* str.isdigit() of one character (of the ASCII characters used here)
IsDigit(c) == c \in {"0", "1", "2", "3", "4", "5", "6", "7", "8", "9"}

\* the checks on add_employee's body (a missing key and an empty value are
\* both falsy)
AddValidate(data) ==
    IF data.name = <<>> \/ data.email = <<>> \/ data.department = NULL
       \/ data.employee_id = <<>>
    THEN Response("add_employee", 400, "Name, email, department, and employee ID are required")
    ELSE IF Len(data.employee_id) # 6
            \/ \E i \in 1..Len(data.employee_id) : ~IsDigit(data.employee_id[i])
    THEN Response("add_employee", 400, "Employee ID must be exactly 6 digits")
    ELSE Ok

\* mutant: the lookup passes over the soft-deleted employees
ActiveEmployeesByEmail(emps, email) ==
    {e \in emps : e.is_active /\ SqlEq(e.email, email)}

\* `SELECT * FROM employees WHERE email = %s`
EmployeesByEmail(emps, email) == {e \in emps : SqlEq(e.email, email)}
UsersByEmail(usrs, email) == {u \in usrs : SqlEq(u.email, email)}
UsersByCode(usrs, code) == {u \in usrs : SqlEq(u.employee_id, code)}

\* data.get('password', 'Password123')
ProvidedPassword(data) ==
    IF data.password = Missing
    THEN <<"P","a","s","s","w","o","r","d","1","2","3">>
    ELSE data.password

\* INSERT INTO users (name, email, password, employee_id): is_admin defaults to FALSE
NewUser(usrs, data) ==
    User(NextId(usrs), data.name, data.email, ProvidedPassword(data),
         data.employee_id, FALSE)

\* INSERT INTO employees (name, email, department, status): is_active defaults
\* to TRUE, deleted_at to NULL
NewEmployee(emps, data) == Employee(NextId(emps), data.name, data.email, data.department)

\* the UNIQUE keys of users (email, employee_id) and of employees (email)
UniqueUser(usrs, row) ==
    UsersByEmail(usrs, row.email) = {} /\ UsersByCode(usrs, row.employee_id) = {}
UniqueEmployee(emps, row) == EmployeesByEmail(emps, row.email) = {}

AddRequest(current_user, data) ==
    [NoRequest EXCEPT !.op = "add_employee", !.current_user = current_user,
                      !.data = data]

AddSuccess(employee) ==
    [Response("add_employee", 201, "Employee added successfully")
        EXCEPT !.employee_id = employee.id, !.status = employee.status,
               !.body = {employee}]

AddError == Response("add_employee", 500, "An error occurred")

AddEmployee(current_user, data) ==
    LET a == AdminRequired(users, current_user, "add_employee")
        v == AddValidate(data)
        user == NewUser(users, data)
        employee == NewEmployee(employees, data)
        existing_user == FetchOne(UsersByEmail(users, data.email))
    IN  /\ nreq' = nreq + 1
        /\ req' = AddRequest(current_user, data)
        /\ before' = Snapshot
        /\ IF a # Ok
           THEN resp' = a /\ UNCHANGED <<users, employees>>
           ELSE IF v # Ok
           THEN resp' = v /\ UNCHANGED <<users, employees>>
           ELSE IF EmployeesByEmail(employees, data.email) # {}
           THEN /\ resp' = Response("add_employee", 409, "Employee with this email already exists")
                /\ UNCHANGED <<users, employees>>
           ELSE IF UsersByCode(users, data.employee_id) # {}
           THEN /\ resp' = Response("add_employee", 409, "Employee ID already exists")
                /\ UNCHANGED <<users, employees>>
           ELSE IF existing_user.id = NoId /\ ~UniqueUser(users, user)
           THEN resp' = AddError /\ UNCHANGED <<users, employees>>
           ELSE /\ users' = IF existing_user.id = NoId THEN users \cup {user} ELSE users
                /\ IF UniqueEmployee(employees, employee)
                   THEN /\ employees' = employees \cup {employee}
                        /\ resp' = AddSuccess(employee)
                   ELSE /\ resp' = AddError
                        /\ UNCHANGED employees
        /\ UNCHANGED <<employee_attendance, attendance, today, ever_present, txn,
                       collation, ever_deleted>>

\* NOW() in a TIMESTAMP column
Timestamp(date, time) == date * (MaxTime + 1) + time

\* mutant: the delete removes the row
HardDelete(emps, employee_id, now) == {e \in emps : e.id # employee_id}

\* mutant: the delete stamps the time and leaves the flag
SoftDeleteKeepsFlag(emps, employee_id, now) ==
    {IF e.id = employee_id THEN [e EXCEPT !.deleted_at = now] ELSE e : e \in emps}

\* UPDATE employees SET is_active = FALSE, deleted_at = NOW() WHERE id = %s
SoftDelete(emps, employee_id, now) ==
    {IF e.id = employee_id
     THEN [e EXCEPT !.is_active = FALSE, !.deleted_at = now]
     ELSE e : e \in emps}

DeleteRequest(current_user, employee_id, current_time) ==
    [NoRequest EXCEPT !.op = "delete_employee", !.current_user = current_user,
                      !.employee_id = employee_id, !.now = current_time]

DeleteEmployee(current_user, employee_id, current_time) ==
    LET a == AdminRequired(users, current_user, "delete_employee")
        employee == FetchOne({e \in employees : e.id = employee_id /\ e.is_active})
    IN  /\ nreq' = nreq + 1
        /\ req' = DeleteRequest(current_user, employee_id, current_time)
        /\ before' = Snapshot
        /\ IF a # Ok
           THEN resp' = a /\ UNCHANGED <<employees, ever_deleted>>
           ELSE IF employee.id = NoId
           THEN /\ resp' = Response("delete_employee", 404, "Employee not found")
                /\ UNCHANGED <<employees, ever_deleted>>
           ELSE /\ employees' = SoftDelete(employees, employee_id,
                                           Timestamp(today, current_time))
                /\ ever_deleted' = ever_deleted \cup {employee_id}
                /\ resp' = Response("delete_employee", 200, "Employee deleted successfully")
        /\ UNCHANGED <<users, employee_attendance, attendance, today, ever_present,
                       txn, collation>>

\* mutant: the listings do not look at the active flag
AnyEmployees(emps, is_active) == emps

\* WHERE is_active = TRUE / WHERE is_active = FALSE
EmployeesWhereActive(emps, is_active) == {e \in emps : e.is_active = is_active}

\* the columns the two listings select (created_at, by which the rows are
\* ordered, is not kept: a listing is the set of its rows)
Listed(e) ==
    [id |-> e.id, name |-> e.name, email |-> e.email, department |-> e.department,
     status |-> e.status, is_active |-> e.is_active]
ListedDeleted(e) ==
    [id |-> e.id, name |-> e.name, email |-> e.email, department |-> e.department,
     status |-> e.status, deleted_at |-> e.deleted_at]

ListRequest(op, current_user) ==
    [NoRequest EXCEPT !.op = op, !.current_user = current_user]

Listing(op, rows) == [Response(op, 200, "") EXCEPT !.body = rows]

GetEmployees(current_user) ==
    LET user_data == UserById(users, current_user)
    IN  /\ nreq' = nreq + 1
        /\ req' = ListRequest("get_employees", current_user)
        /\ before' = Snapshot
        /\ resp' =
             IF user_data.id # NoId /\ user_data.is_admin
             THEN Listing("get_employees",
                      {Listed(e) : e \in EmployeesWhereActive(employees, TRUE)})
             ELSE IF user_data.id # NoId
             THEN Listing("get_employees",
                      {Listed(e) : e \in EmployeesWhereActive(
                           EmployeesByEmail(employees, user_data.email), TRUE)})
             ELSE Listing("get_employees", {})
        /\ UNCHANGED <<users, employees, employee_attendance, attendance, today,
                       ever_present, txn, collation, ever_deleted>>

GetDeletedEmployees(current_user) ==
    LET a == AdminRequired(users, current_user, "get_deleted_employees")
    IN  /\ nreq' = nreq + 1
        /\ req' = ListRequest("get_deleted_employees", current_user)
        /\ before' = Snapshot
        /\ resp' =
             IF a # Ok
             THEN a
             ELSE Listing("get_deleted_employees",
                      {ListedDeleted(e) : e \in EmployeesWhereActive(employees, FALSE)})
        /\ UNCHANGED <<users, employees, employee_attendance, attendance, today,
                       ever_present, txn, collation, ever_deleted>>

\* the bodies an admin's client sends: a complete one, and that one with a
\* field left out, ill-formed, or taken by a row there is
AddData(name, email, department, employee_id, password) ==
    [name |-> name, email |-> email, department |-> department,
     employee_id |-> employee_id, password |-> password]
FreshData == AddData(<<"c", "y">>, <<"c">>, "ops", <<"0","0","0","0","0","3">>, Missing)
EmailInputs == {<<>>, <<"a">>, <<"A">>, <<"b">>, <<"C", " ">>, <<"d">>}
CodeInputs ==
    {<<>>, <<"1", "2">>, <<"0","0","0","0","0","x">>, <<"0","0","0","0","0","1">>,
     <<"0","0","0","0","0","4">>}
AddInputs ==
    {FreshData}
        \cup {[FreshData EXCEPT !.email = e] : e \in EmailInputs}
        \cup {[FreshData EXCEPT !.employee_id = c] : c \in CodeInputs}
        \cup {[FreshData EXCEPT !.email = <<"d">>,
                                !.employee_id = <<"0","0","0","0","0","4">>],
              [FreshData EXCEPT !.name = <<>>],
              [FreshData EXCEPT !.department = NULL],
              [FreshData EXCEPT !.password = <<"p", "w">>]}

InitEmp ==
    /\ users = SeedUsers
    /\ employees = SeedEmployees
    /\ employee_attendance = {}
    /\ attendance = {}
    /\ today = 1
    /\ tokens = {}
    /\ nreq = 0
    /\ req = NoRequest
    /\ resp = NoResponse
    /\ before = Snapshot
    /\ ever_present = {}
    /\ ever_deleted = {}
    /\ admitted = {}
    /\ authorization = NoHeader
    /\ connections = 0
    /\ txn = <<>>
    /\ collation \in {"binary", "general_ci"}

AddEmployeeStep ==
    /\ Ready
    /\ UNCHANGED session
    /\ \E current_user \in CallerIds :
         \E data \in IF AdminRequired(users, current_user, "add_employee") = Ok
                     THEN AddInputs ELSE {FreshData} :
             AddEmployee(current_user, data)
    /\ Served

DeleteEmployeeStep ==
    /\ Ready
    /\ UNCHANGED session
    /\ \E current_user \in CallerIds, employee_id \in EmployeeIdInputs \ {NoId} :
         \E current_time \in IF AdminRequired(users, current_user, "delete_employee") = Ok
                                /\ EmployeeById(employees, employee_id).id # NoId
                             THEN Times ELSE {NoTime} :
             DeleteEmployee(current_user, employee_id, current_time)
    /\ Served

GetEmployeesStep ==
    /\ Ready
    /\ UNCHANGED session
    /\ \E current_user \in CallerIds : GetEmployees(current_user)
    /\ Served

GetDeletedEmployeesStep ==
    /\ Ready
    /\ UNCHANGED session
    /\ \E current_user \in CallerIds : GetDeletedEmployees(current_user)
    /\ Served

NextEmp ==
    \/ AddEmployeeStep
    \/ DeleteEmployeeStep
    \/ GetEmployeesStep
    \/ GetDeletedEmployeesStep
    \/ Forget

SpecEmp == InitEmp /\ [][NextEmp]_vars

\* ---------------------------------------------------- the listings' claims
ListedIds == {r.id : r \in resp.body}
NeverDeleted == {e.id : e \in employees} \ ever_deleted
CallerIsAdmin == AdminRequired(users, req.current_user, req.op) = Ok

\* C10: after any sequence of add_employee and delete_employee calls, the
\* default listing (whoever asks) holds no employee that delete_employee has
\* deleted, and for an admin it holds every employee never deleted; the
\* deleted listing holds every deleted employee and no other.
C10_SoftDeletedListings ==
    /\ (req.op = "get_employees")
         => /\ resp.code = 200
            /\ ListedIds \cap ever_deleted = {}
            /\ CallerIsAdmin => ListedIds = NeverDeleted
    /\ (req.op = "get_deleted_employees" /\ resp.code = 200)
         => ListedIds = ever_deleted
    /\ (req.op = "get_deleted_employees") => (resp.code = 200 <=> CallerIsAdmin)
    /\ ever_deleted \subseteq {e.id : e \in employees}

\* an admin lists the employees after one added through add_employee has
\* been deleted and others have not
C10_Witness ==
    /\ req.op = "get_employees"
    /\ CallerIsAdmin
    /\ \E id \in ever_deleted : id \notin {e.id : e \in SeedEmployees}
    /\ ListedIds # {}
    /\ ListedIds = NeverDeleted

\* ------------------------------- SpecConc: mark_employee_attendance, threaded
\* The server's workers serve requests at the same time, each on a
\* connection of its own (autocommit off).  The handler's SELECTs are
\* consistent reads of one snapshot; its INSERT / UPDATEs lock the rows and
\* the unique key they touch until conn.commit(), so to every other
\* connection they take effect at the commit, against the rows committed by
\* then.  A request is therefore two steps: the reads up to the choice of the
\* branch, and the branch's writes with the commit.  txn is the bag of the
\* requests between the two (the workers are alike).
InFlight(employee_id, date, d) == [employee_id |-> employee_id, date |-> date, d |-> d]

InitConc ==
    /\ users = SeedUsers
    /\ employees = SeedEmployees
    /\ employee_attendance = {}
    /\ attendance = {}
    /\ today = 1
    /\ tokens = {}
    /\ nreq = 0
    /\ req = NoRequest
    /\ resp = NoResponse
    /\ before = Snapshot
    /\ ever_present = {}
    /\ ever_deleted = {}
    /\ admitted = {}
    /\ authorization = NoHeader
    /\ connections = 0
    /\ txn = EmptyBag
    /\ collation = "general_ci"

\* A behaviour takes at most MaxRequests requests, MaxWorkers at a time, and
\* no new one after the first that is refused or fails (it left every table
\* as it found it).
Intake ==
    /\ nreq < MaxRequests
    /\ BagCardinality(txn) < MaxWorkers
    /\ resp.code \in {NoResponse.code, MarkSuccess(NoId, NULL).code}

\* the body's checks, the lookups and the SELECT of today's row
MarkRead(current_user, employee_id, status, action, check_in_time, check_out_time, current_time) ==
    LET v == MarkValidate(employee_id, status, action)
        a == MarkAuthorize(users, employees, current_user, employee_id)
        existing == ExistingAttendance(employee_attendance, employee_id, today)
        d == MarkDecide(existing, status, action, check_in_time, check_out_time,
                        current_time)
    IN  /\ Intake
        /\ nreq' = nreq + 1
        /\ IF v # Ok THEN resp' = v /\ UNCHANGED <<txn, connections>>
           ELSE IF a # Ok THEN resp' = a /\ UNCHANGED <<txn, connections>>
           ELSE IF d.kind = "reject"
                THEN resp' = d.resp /\ UNCHANGED <<txn, connections>>
           ELSE /\ txn' = txn (+) SetToBag({InFlight(employee_id, today, d)})
                /\ connections' = connections + 1
                /\ UNCHANGED resp
        /\ UNCHANGED <<users, employees, employee_attendance, attendance, today,
                       req, before, ever_present, collation, ever_deleted>>

\* the branch's statements and conn.commit(), or the exception handler
MarkWrite(w) ==
    LET x == MarkExecute(w.d, employee_attendance, employees,
                         EmployeeById(employees, w.employee_id), w.date)
    IN  /\ BagIn(w, txn)
        /\ txn' = txn (-) SetToBag({w})
        /\ IF x.raised
           THEN /\ resp' = MarkError
                /\ connections' = connections - 1 + Unreleased(MarkError)
                /\ UNCHANGED <<employees, employee_attendance>>
           ELSE /\ resp' = MarkSuccess(w.employee_id, w.d.status)
                /\ connections' = connections - 1
                /\ employee_attendance' = x.employee_attendance
                /\ employees' = x.employees
        /\ ever_present' = ever_present \cup OnceMarkedIn(employee_attendance')
        /\ UNCHANGED <<users, attendance, today, nreq, req, before, collation,
                       ever_deleted>>

\* Overlapping requests of the accounts there are, for the employees there
\* are, each leaving its time to the server's clock, which they all read as
\* the same second.
ClockInputs == {[supplied |-> NoTime, now |-> Max(Times)]}

MarkReadStep ==
    /\ Intake
    /\ UNCHANGED session
    /\ \E current_user \in {u.id : u \in users},
          employee_id \in {e.id : e \in employees},
          status \in StatusInputs, action \in ActionInputs :
         \E t \in IF MarkReachesClock(current_user, employee_id, status, action)
                  THEN ClockInputs ELSE NoTimeInput :
             MarkRead(current_user, employee_id, status, action,
                      NoTime, NoTime, t.now)

MarkWriteStep == UNCHANGED session /\ \E w \in BagToSet(txn) : MarkWrite(w)

\* NextDay: midnight passes, also while requests are in flight
NextConc == MarkReadStep \/ MarkWriteStep \/ NextDay

SpecConc == InitConc /\ [][NextConc]_vars

\* C2: whatever mark_employee_attendance calls were made, one after another
\* or overlapping, no two rows of employee_attendance are for the same
\* employee and the same date.
C2_OneRowPerEmployeeDay ==
    \A r1, r2 \in employee_attendance :
        (r1.employee_id = r2.employee_id /\ r1.date = r2.date) => r1 = r2

\* overlapping first check-ins of one employee on one day: both read "no
\* row", one committed its INSERT, the other's INSERT hit the unique key
C2_Witness ==
    /\ resp = MarkError
    /\ employee_attendance # {}
    /\ txn = EmptyBag

\* ------------------------------ SpecDel: attendance marking and soft delete
NextDel == MarkStep \/ DeleteEmployeeStep \/ Forget

\* C18: when a handler has returned, it holds no open connection: the
\* connections open are those of the requests still being served, also after
\* a request whose INSERT hit the unique key and was answered 500.
C18_ConnectionsReleased == connections = BagCardinality(txn)

\* the rows of employee_attendance for the employee and day of a request
RowsOf(rows, w) == {r \in rows : r.employee_id = w.employee_id /\ r.date = w.date}

\* the request w in flight has just run its statements
Wrote(w) == BagIn(w, txn) /\ txn' = txn (-) SetToBag({w})

\* C19: of overlapping first check-ins of one employee on one day that all
\* read "no row", the one whose INSERT comes first is answered 200, adds the
\* one row of that employee and day with its status and sets the employee's
\* status to it; each later one is answered with the error and changes no
\* table, the employee's status included, so the row keeps the first one's
\* status.
C19_OneCheckInWins ==
    [][\A w \in BagToSet(txn) :
          (Wrote(w) /\ w.d.kind = "insert") =>
              IF RowsOf(employee_attendance, w) = {}
              THEN /\ resp' = MarkSuccess(w.employee_id, w.d.status)
                   /\ \E r \in employee_attendance' :
                        /\ r \notin employee_attendance
                        /\ employee_attendance' = employee_attendance \cup {r}
                        /\ RowsOf(employee_attendance', w) = {r}
                        /\ r.status = w.d.status
                   /\ employees' = SetEmployeeStatus(employees, w.employee_id,
                                                     w.d.status)
              ELSE /\ resp' = MarkError
                   /\ resp'.code \notin {200, 201}
                   /\ <<users, employees, employee_attendance, attendance>>' =
                          <<users, employees, employee_attendance, attendance>>
                   /\ Cardinality(RowsOf(employee_attendance', w)) = 1]_vars

\* two requests were taken and both read "no row": the first has committed
\* its INSERT, the second was answered 500 and left the row and the
\* employee's status as the first one set them
C19_Witness ==
    /\ nreq = 2
    /\ txn = EmptyBag
    /\ resp = MarkError
    /\ \E r \in employee_attendance :
          /\ employee_attendance = {r}
          /\ EmployeeById(employees, r.employee_id).status = r.status

SpecDel == InitAtt /\ [][NextDel]_vars

DeletedRowBefore == {e \in before.employees : e.id = req.employee_id}
OtherRowsAfter == {e \in employees : e.id # req.employee_id}

\* C11: a delete_employee that is answered 200 found the employee active,
\* removes no row, sets is_active to FALSE and deleted_at to the time of
\* the call on that one employee row and leaves every other employee row,
\* users, employee_attendance and attendance as they were; a delete_employee
\* answered otherwise changes nothing.
C11_DeleteOnlyFlagsOneRow ==
    (req.op = "delete_employee") =>
        /\ users = before.users
        /\ employee_attendance = before.employee_attendance
        /\ attendance = before.attendance
        /\ {e.id : e \in employees} = {e.id : e \in before.employees}
        /\ OtherRowsAfter = {e \in before.employees : e.id # req.employee_id}
        /\ resp.code = 200 =>
             \E e \in DeletedRowBefore :
                 /\ e.is_active
                 /\ employees \ OtherRowsAfter =
                      {[e EXCEPT !.is_active = FALSE,
                                 !.deleted_at = Timestamp(before.today, req.now)]}
        /\ resp.code # 200 => employees = before.employees

\* an admin deletes an employee who has attendance history, another employee
\* being on file
C11_Witness ==
    /\ req.op = "delete_employee"
    /\ resp.code = 200
    /\ \E r \in employee_attendance : r.employee_id = req.employee_id
    /\ OtherRowsAfter # {}

\* ------------------------------------------------- accounts: signup, login
\* `not employee_id or len(employee_id) != 6 or not employee_id.isdigit()`
SixDigits(code) == Len(code) = 6 /\ \A i \in 1..Len(code) : IsDigit(code[i])

\* mutant: signup checks the length of the employee ID only
SignupValidateLengthOnly(data) ==
    IF data.name = <<>> \/ data.email = <<>> \/ data.password \in {<<>>, Missing}
    THEN Response("signup", 400, "All fields are required")
    ELSE IF Len(data.employee_id) # 6
    THEN Response("signup", 400, "Employee ID must be exactly 6 digits")
    ELSE Ok

\* the checks on signup's body
SignupValidate(data) ==
    IF data.name = <<>> \/ data.email = <<>> \/ data.password \in {<<>>, Missing}
    THEN Response("signup", 400, "All fields are required")
    ELSE IF data.employee_id = <<>> \/ ~SixDigits(data.employee_id)
    THEN Response("signup", 400, "Employee ID must be exactly 6 digits")
    ELSE Ok

SignupRequest(data) == [NoRequest EXCEPT !.op = "signup", !.data = data]

SignupSuccess(data) ==
    [Response("signup", 201, "User created successfully")
        EXCEPT !.body = {[name |-> data.name, email |-> data.email,
                          employee_id |-> data.employee_id]}]

SignupError == Response("signup", 500, "An error occurred during signup")

\* mutant: signup looks for the email only
SignupConflictEmailOnly(usrs, data) ==
    IF UsersByEmail(usrs, data.email) # {}
    THEN Response("signup", 409, "User already exists")
    ELSE Ok

\* the two SELECTs before the INSERT
SignupConflict(usrs, data) ==
    IF UsersByEmail(usrs, data.email) # {}
    THEN Response("signup", 409, "User already exists")
    ELSE IF UsersByCode(usrs, data.employee_id) # {}
    THEN Response("signup", 409, "Employee ID already exists")
    ELSE Ok

Signup(data) ==
    LET v == SignupValidate(data)
        c == SignupConflict(users, data)
        user == NewUser(users, data)
    IN  /\ nreq' = nreq + 1
        /\ req' = SignupRequest(data)
        /\ before' = Snapshot
        /\ IF v # Ok
           THEN resp' = v /\ UNCHANGED users
           ELSE IF c # Ok
           THEN resp' = c /\ UNCHANGED users
           ELSE IF ~UniqueUser(users, user)
           THEN resp' = SignupError /\ UNCHANGED users
           ELSE /\ users' = users \cup {user}
                /\ resp' = SignupSuccess(data)
        /\ UNCHANGED <<employees, employee_attendance, attendance, today,
                       ever_present, txn, collation, ever_deleted>>

\* the payload login signs: the user it is for and the time it expires
Token(user, exp) ==
    [user_id |-> user.id, email |-> user.email, employee_id |-> user.employee_id,
     exp |-> exp, key |-> "SECRET_KEY"]

\* datetime.utcnow() + timedelta(hours=24)
Expiry(date, time) == Timestamp(date + 1, time)

LoginRequest(employee_id, password, current_time) ==
    [NoRequest EXCEPT !.op = "login", !.now = current_time,
                      !.data = [NoData EXCEPT !.employee_id = employee_id,
                                              !.password = password]]

InvalidCredentials == Response("login", 401, "Invalid credentials")

LoginSuccess(user, exp) ==
    [Response("login", 200, "Login successful")
        EXCEPT !.body = {[token |-> Token(user, exp), id |-> user.id,
                          name |-> user.name, email |-> user.email,
                          employee_id |-> user.employee_id,
                          is_admin |-> user.is_admin]}]

\* mutant: an unknown employee ID is told apart
LoginAnswerTellsUnknown(usrs, employee_id, password, exp) ==
    LET user == FetchOne(UsersByCode(usrs, employee_id))
    IN  IF password \in {<<>>, Missing} \/ employee_id = <<>>
        THEN Response("login", 400, "Password and Employee ID are required")
        ELSE IF user.id = NoId
        THEN Response("login", 401, "Unknown employee ID")
        ELSE IF ~CheckPasswordHash(user.password, password)
        THEN InvalidCredentials
        ELSE LoginSuccess(user, exp)

LoginAnswer(usrs, employee_id, password, exp) ==
    LET user == FetchOne(UsersByCode(usrs, employee_id))
    IN  IF password \in {<<>>, Missing} \/ employee_id = <<>>
        THEN Response("login", 400, "Password and Employee ID are required")
        ELSE IF user.id = NoId
        THEN InvalidCredentials
        ELSE IF ~CheckPasswordHash(user.password, password)
        THEN InvalidCredentials
        ELSE LoginSuccess(user, exp)

Login(employee_id, password, current_time) ==
    /\ nreq' = nreq + 1
    /\ req' = LoginRequest(employee_id, password, current_time)
    /\ before' = Snapshot
    /\ resp' = LoginAnswer(users, employee_id, password, Expiry(today, current_time))
    /\ tokens' = tokens \cup {b.token : b \in resp'.body}
    /\ UNCHANGED <<users, employees, employee_attendance, attendance, today,
                   ever_present, txn, collation, ever_deleted>>

\* ------------------------------------------------------- reset_password
MinPasswordLen == 6

ResetRequest(employee_id, new_password) ==
    [NoRequest EXCEPT !.op = "reset_password",
                      !.data = [NoData EXCEPT !.employee_id = employee_id,
                                              !.password = new_password]]

\* mutant: the new password is stored on every user
SetPasswordEveryUser(usrs, id, password) ==
    {[u EXCEPT !.password = PasswordHash(password)] : u \in usrs}

\* UPDATE users SET password = %s WHERE id = %s, with the new hash
SetPassword(usrs, id, password) ==
    {IF u.id = id THEN [u EXCEPT !.password = PasswordHash(password)] ELSE u :
        u \in usrs}

ResetPassword(employee_id, new_password) ==
    LET user == FetchOne(UsersByCode(users, employee_id))
    IN  /\ nreq' = nreq + 1
        /\ req' = ResetRequest(employee_id, new_password)
        /\ before' = Snapshot
        /\ IF employee_id = <<>> \/ new_password \in {<<>>, Missing}
           THEN /\ resp' = Response("reset_password", 400,
                                    "Employee ID and new password are required")
                /\ UNCHANGED users
           ELSE IF Len(new_password) < MinPasswordLen
           THEN /\ resp' = Response("reset_password", 400,
                                    "Password must be at least 6 characters long")
                /\ UNCHANGED users
           ELSE IF user.id = NoId
           THEN /\ resp' = Response("reset_password", 401, "Invalid employee ID")
                /\ UNCHANGED users
           ELSE /\ users' = SetPassword(users, user.id, new_password)
                /\ resp' = Response("reset_password", 200, "Password reset successfully")
        /\ UNCHANGED <<employees, employee_attendance, attendance, today,
                       ever_present, txn, collation, ever_deleted>>

\* ---------------------------------------------- SpecAcct: the accounts
\* the bodies a client sends to signup: a complete one, and that one with a
\* field left out, ill-formed, or taken by a row there is
NewSignup ==
    AddData(<<"d", "y">>, <<"d">>, NULL, <<"0","0","0","0","0","5">>,
            <<"s","e","c","r","e","t">>)
SignupEmailInputs == {<<>>, <<"a">>, <<"b">>, <<"c">>}
SignupCodeInputs ==
    {<<>>, <<"1","2","3","4","5">>, <<"1","2","3","4","5","6","7">>,
     <<"0","0","0","0","0","x">>, <<"0","0","0","0","0","1">>,
     <<"0","0","0","0","0","3">>}
SignupInputs ==
    {NewSignup}
        \cup {[NewSignup EXCEPT !.email = e] : e \in SignupEmailInputs}
        \cup {[NewSignup EXCEPT !.employee_id = c] : c \in SignupCodeInputs}
        \cup {[NewSignup EXCEPT !.name = <<>>],
              [NewSignup EXCEPT !.password = <<>>],
              [NewSignup EXCEPT !.password = Missing,
                                !.employee_id = <<"1","2","3","4","5">>]}

\* the employee IDs and passwords a client sends to login and reset_password:
\* those on file, one followed by a blank, an unknown one, none
KnownCodes == {u.employee_id : u \in users}
LoginCodeInputs ==
    KnownCodes \cup {<<>>, <<"9","9","9","9","9","9">>,
                     <<"0","0","0","0","0","1"," ">>}
PasswordInputs ==
    {<<>>, <<"s","e","c","r","e","t","1">>, <<"s","e","c","r","e","t">>,
     <<"s","e","c","r","1">>}

SignupStep ==
    /\ Ready
    /\ UNCHANGED session
    /\ \E data \in SignupInputs : Signup(data)
    /\ Served

LoginStep ==
    /\ Ready
    /\ UNCHANGED <<admitted, authorization>>
    /\ \E employee_id \in LoginCodeInputs, password \in PasswordInputs :
         \E current_time \in
                IF LoginAnswer(users, employee_id, password, NoTime).code = 200
                THEN Times ELSE {NoTime} :
             Login(employee_id, password, current_time)
    /\ Served

ResetPasswordStep ==
    /\ Ready
    /\ UNCHANGED session
    /\ \E employee_id \in LoginCodeInputs, new_password \in PasswordInputs :
         ResetPassword(employee_id, new_password)
    /\ Served

NextAcct ==
    \/ SignupStep
    \/ LoginStep
    \/ ResetPasswordStep
    \/ AddEmployeeStep
    \/ Forget

SpecAcct == InitEmp /\ [][NextAcct]_vars

\* C12: a signup whose employee_id is missing, is not 6 characters long or
\* holds a character that is not a digit is answered 400 and users is as it
\* was; every user a signup creates has an employee_id of six digits.
C12_SignupNeedsSixDigits ==
    (req.op = "signup") =>
        /\ (req.data.employee_id = <<>>
              \/ Len(req.data.employee_id) # 6
              \/ \E i \in DOMAIN req.data.employee_id : ~IsDigit(req.data.employee_id[i]))
             => (resp.code = 400 /\ users = before.users)
        /\ \A u \in users \ before.users :
               /\ Len(u.employee_id) = 6
               /\ \A i \in 1..6 : IsDigit(u.employee_id[i])

\* a signup complete but for an employee_id of six characters, one of them a
\* letter, is refused
C12_Witness ==
    /\ req.op = "signup"
    /\ resp.code = 400
    /\ Len(req.data.employee_id) = 6
    /\ \E i \in 1..6 : ~IsDigit(req.data.employee_id[i])
    /\ req.data.name # <<>> /\ req.data.email # <<>> /\ req.data.password # <<>>
    /\ users = before.users

\* C13: after any signup and add_employee calls no two rows of users have
\* the same email or the same employee_id (as the columns compare them); a
\* signup with a well-formed body whose email or employee_id a user already
\* has is answered 409 and users is as it was.
C13_UniqueEmailAndCode ==
    /\ \A u1, u2 \in users :
           u1 # u2 => /\ u1.id # u2.id
                      /\ ~SqlEq(u1.email, u2.email)
                      /\ ~SqlEq(u1.employee_id, u2.employee_id)
    /\ (/\ req.op = "signup"
        /\ SignupValidate(req.data) = Ok
        /\ \E u \in before.users :
               \/ SqlEq(u.email, req.data.email)
               \/ SqlEq(u.employee_id, req.data.employee_id))
         => (resp.code = 409 /\ users = before.users)

\* a signup reuses the employee_id of the account add_employee made
C13_Witness ==
    /\ req.op = "signup"
    /\ resp.code = 409
    /\ \E u \in users \ SeedUsers :
           /\ u.employee_id = req.data.employee_id
           /\ ~SqlEq(u.email, req.data.email)

\* ------------------------------------------- login and reset_password claims
LoginBodyComplete ==
    req.data.password \notin {<<>>, Missing} /\ req.data.employee_id # <<>>
UsersWithCodeBefore ==
    {u \in before.users : SqlEq(u.employee_id, req.data.employee_id)}
Verifies(u, password) == CheckPasswordHash(u.password, password)

\* C14: login answers 200 with a token only when a user has the employee_id
\* sent and the password sent verifies against that user's hash, and the
\* token is that user's; a complete body with an employee_id no user has and
\* one with a password that does not verify get one and the same response,
\* 401 "Invalid credentials".
C14_LoginNeedsBothFactors ==
    (req.op = "login") =>
        /\ users = before.users
        /\ resp.code = 200 =>
             \E u \in UsersWithCodeBefore :
                 /\ Verifies(u, req.data.password)
                 /\ \A b \in resp.body : b.token.user_id = u.id
                 /\ resp.body # {}
        /\ (LoginBodyComplete /\ UsersWithCodeBefore = {}) => resp = InvalidCredentials
        /\ (LoginBodyComplete
              /\ \E u \in UsersWithCodeBefore : ~Verifies(u, req.data.password))
             => resp = InvalidCredentials
        /\ resp.code # 200 => resp.body = {}

\* a login with the employee_id of an account and a password that is not its
\* own is answered as an unknown employee_id is
C14_Witness ==
    /\ req.op = "login"
    /\ LoginBodyComplete
    /\ \E u \in UsersWithCodeBefore : ~Verifies(u, req.data.password)
    /\ resp = InvalidCredentials
    /\ resp = LoginAnswer(users, <<"9","9","9","9","9","9">>, req.data.password, NoTime)

OldPassword(u) == u.password[2]

\* C15: reset_password with a new password of fewer than 6 characters is
\* answered 400 and users is as it was; with a new password of 6 or more
\* and an employee_id no user has, 401 and users is as it was; answered 200
\* it changed the password of the one user with that employee_id and
\* nothing else, a login with the new password then succeeds and one with
\* the old password (when it is another one) is answered 401.
C15_ResetPassword ==
    (req.op = "reset_password") =>
        /\ Len(req.data.password) < MinPasswordLen
             => (resp.code = 400 /\ users = before.users)
        /\ (/\ Len(req.data.password) >= MinPasswordLen
            /\ req.data.employee_id # <<>>
            /\ UsersWithCodeBefore = {})
             => (resp.code = 401 /\ users = before.users)
        /\ resp.code \in {200, 400, 401}
        /\ resp.code # 200 => users = before.users
        /\ resp.code = 200 =>
             \E u \in UsersWithCodeBefore :
                 /\ users \ before.users =
                        {[u EXCEPT !.password = PasswordHash(req.data.password)]}
                        \ before.users
                 /\ before.users \ users = {u} \ users
                 /\ LoginAnswer(users, req.data.employee_id, req.data.password,
                                NoTime).code = 200
                 /\ OldPassword(u) # req.data.password
                      => LoginAnswer(users, req.data.employee_id, OldPassword(u),
                                     NoTime) = InvalidCredentials
        /\ employees = before.employees
        /\ employee_attendance = before.employee_attendance
        /\ attendance = before.attendance

\* the password of an account made by signup is reset to another one, other
\* accounts being on file
C15_Witness ==
    /\ req.op = "reset_password"
    /\ resp.code = 200
    /\ users # before.users
    /\ \E u \in UsersWithCodeBefore : u \notin SeedUsers

\* ------------------------------------- token_required and admin_required
\* mutant: the expiry of the token is not looked at
TokenRequiredNoExpiry(header, op) ==
    IF ~header.present
    THEN Response(op, 401, "Token is missing!")
    ELSE IF header.token.key # "SECRET_KEY"
    THEN Response(op, 401, "Token is invalid!")
    ELSE Ok

\* The header check both decorators make: jwt.decode verifies the signature
\* and then the exp claim; a "Bearer " prefix is dropped first.
TokenRequired(header, op) ==
    IF ~header.present
    THEN Response(op, 401, "Token is missing!")
    ELSE IF header.token.key # "SECRET_KEY"
    THEN Response(op, 401, "Token is invalid!")
    ELSE IF header.token.exp <= header.at
    THEN Response(op, 401, "Token has expired!")
    ELSE Ok

\* the decorator answers and the handler is not called
Refuse(op, response) ==
    /\ nreq' = nreq + 1
    /\ req' = [NoRequest EXCEPT !.op = op]
    /\ resp' = response
    /\ before' = Snapshot
    /\ UNCHANGED <<users, employees, employee_attendance, attendance, today,
                   ever_present, txn, collation, ever_deleted>>

\* GET /api/employees/<id>/details
EmployeeDetails(usrs, rows, employee) ==
    LET user_data == FetchOne(UsersByEmail(usrs, employee.email))
        mine == {r \in rows : r.employee_id = employee.id}
    IN  [id |-> employee.id, name |-> employee.name, email |-> employee.email,
         department |-> employee.department, status |-> employee.status,
         employee_id |-> IF user_data.id = NoId THEN <<>> ELSE user_data.employee_id,
         total_days |-> Cardinality(mine),
         present_days |-> Cardinality({r \in mine : r.status = "present"}),
         absent_days |-> Cardinality({r \in mine : r.status = "absent"}),
         late_days |-> Cardinality({r \in mine : r.status = "late"})]

GetEmployeeDetails(current_user, employee_id) ==
    LET a == AdminRequired(users, current_user, "get_employee_details")
        employee == EmployeeById(employees, employee_id)
    IN  /\ nreq' = nreq + 1
        /\ req' = [ListRequest("get_employee_details", current_user)
                      EXCEPT !.employee_id = employee_id]
        /\ before' = Snapshot
        /\ resp' =
             IF a # Ok
             THEN a
             ELSE IF employee.id = NoId
             THEN Response("get_employee_details", 404, "Employee not found")
             ELSE Listing("get_employee_details",
                          {EmployeeDetails(users, employee_attendance, employee)})
        /\ UNCHANGED <<users, employees, employee_attendance, attendance, today,
                       ever_present, txn, collation, ever_deleted>>

\* --------------------------------------- SpecAuth: the protected routes
\* Tokens issued the day before to the two accounts and to one whose row has
\* since been removed from the store; they expire at the last clock reading
\* of the first day.
GoneUser ==
    User(NextId(SeedUsers), <<"c", "y">>, <<"c">>, <<"s","e","c","r","e","t">>,
         <<"0","0","0","0","0","3">>, TRUE)
SeedTokens == {Token(u, Expiry(0, MaxTime)) : u \in SeedUsers \cup {GoneUser}}

InitAuth ==
    /\ users = SeedUsers
    /\ employees = SeedEmployees
    /\ employee_attendance = {}
    /\ attendance = {}
    /\ today = 1
    /\ tokens = SeedTokens
    /\ nreq = 0
    /\ req = NoRequest
    /\ resp = NoResponse
    /\ before = Snapshot
    /\ ever_present = {}
    /\ ever_deleted = {}
    /\ admitted = {}
    /\ authorization = NoHeader
    /\ connections = 0
    /\ txn = <<>>
    /\ collation = "general_ci"

\* what a client can put in the header: nothing, a token login issued (with
\* or without "Bearer "), such a token signed with another key
Forged == {[t EXCEPT !.key = "another key"] : t \in tokens}
Headers ==
    {NoHeader} \cup
    {[present |-> TRUE, bearer |-> b, token |-> t, at |-> NoTime] :
        b \in BOOLEAN, t \in tokens \cup Forged}
At(header, current_time) == [header EXCEPT !.at = Timestamp(today, current_time)]

CheckInAuth ==
    /\ Ready
    /\ UNCHANGED <<tokens, admitted>>
    /\ \E header \in Headers, current_time \in Times :
         LET h == At(header, current_time)
             t == TokenRequired(h, "check_in")
         IN  /\ authorization' = h
             /\ IF t # Ok
                THEN Refuse("check_in", t)
                ELSE CheckIn(h.token.user_id, FALSE, NoTime, NULL, current_time)
    /\ Served

GetEmployeesAuth ==
    /\ Ready
    /\ UNCHANGED <<tokens, admitted>>
    /\ \E header \in Headers, current_time \in Times :
         LET h == At(header, current_time)
             t == TokenRequired(h, "get_employees")
         IN  /\ authorization' = h
             /\ IF t # Ok
                THEN Refuse("get_employees", t)
                ELSE GetEmployees(h.token.user_id)
    /\ Served

\* admin_required: the header check, then the lookup of the caller's flag
Admits(h, op) ==
    TokenRequired(h, op) = Ok /\ AdminRequired(users, h.token.user_id, op) = Ok

AddEmployeeAuth ==
    /\ Ready
    /\ UNCHANGED tokens
    /\ \E header \in Headers, current_time \in Times :
         LET h == At(header, current_time)
             t == TokenRequired(h, "add_employee")
         IN  /\ authorization' = h
             /\ admitted' = IF Admits(h, "add_employee")
                            THEN admitted \cup {h.token} ELSE admitted
             /\ IF t # Ok
                THEN Refuse("add_employee", t)
                ELSE AddEmployee(h.token.user_id, FreshData)
    /\ Served

DeleteEmployeeAuth ==
    /\ Ready
    /\ UNCHANGED tokens
    /\ \E header \in Headers, current_time \in Times,
          employee_id \in {e.id : e \in employees} :
         LET h == At(header, current_time)
             t == TokenRequired(h, "delete_employee")
         IN  /\ authorization' = h
             /\ admitted' = IF Admits(h, "delete_employee")
                            THEN admitted \cup {h.token} ELSE admitted
             /\ IF t # Ok
                THEN Refuse("delete_employee", t)
                ELSE DeleteEmployee(h.token.user_id, employee_id, current_time)
    /\ Served

GetDeletedEmployeesAuth ==
    /\ Ready
    /\ UNCHANGED tokens
    /\ \E header \in Headers, current_time \in Times :
         LET h == At(header, current_time)
             t == TokenRequired(h, "get_deleted_employees")
         IN  /\ authorization' = h
             /\ admitted' = IF Admits(h, "get_deleted_employees")
                            THEN admitted \cup {h.token} ELSE admitted
             /\ IF t # Ok
                THEN Refuse("get_deleted_employees", t)
                ELSE GetDeletedEmployees(h.token.user_id)
    /\ Served

GetEmployeeDetailsAuth ==
    /\ Ready
    /\ UNCHANGED tokens
    /\ \E header \in Headers, current_time \in Times,
          employee_id \in {e.id : e \in employees} :
         LET h == At(header, current_time)
             t == TokenRequired(h, "get_employee_details")
         IN  /\ authorization' = h
             /\ admitted' = IF Admits(h, "get_employee_details")
                            THEN admitted \cup {h.token} ELSE admitted
             /\ IF t # Ok
                THEN Refuse("get_employee_details", t)
                ELSE GetEmployeeDetails(h.token.user_id, employee_id)
    /\ Served

\* the store's administrator clears an account's admin flag (no endpoint does)
ClearAdmin ==
    /\ req.op = "none"
    /\ \E u \in {x \in users : x.is_admin} :
         users' = (users \ {u}) \cup {[u EXCEPT !.is_admin = FALSE]}
    /\ before' = [before EXCEPT !.users = users']
    /\ UNCHANGED <<employees, employee_attendance, attendance, today, nreq, req,
                   resp, ever_present, txn, collation, ever_deleted, session,
                   connections>>

NextAuth ==
    \/ LoginStep
    \/ CheckInAuth
    \/ GetEmployeesAuth
    \/ AddEmployeeAuth
    \/ DeleteEmployeeAuth
    \/ GetDeletedEmployeesAuth
    \/ GetEmployeeDetailsAuth
    \/ ClearAdmin
    \/ NextDay
    \/ Forget

SpecAuth == InitAuth /\ [][NextAuth]_vars

\* ------------------------------------------------ the decorators' claims
TokenRoutes == {"check_in", "get_employees"}
AdminRoutes ==
    {"add_employee", "delete_employee", "get_deleted_employees",
     "get_employee_details"}
Signed == authorization.present /\ authorization.token.key = "SECRET_KEY"
Unexpired == authorization.token.exp > authorization.at
Untouched == Snapshot = before /\ req.current_user = NoId /\ resp.body = {}

\* C16: a request to a protected route with no token, with a token that does
\* not verify or with one that has expired is answered 401, each with a
\* message of its own, and the handler is not run (nothing changes); when the
\* handler runs, the token was issued by login, is unexpired, and the handler
\* is given the user id it carries.
C16_TokenRequired ==
    (req.op \in TokenRoutes \cup AdminRoutes) =>
        /\ ~authorization.present
             => (resp.code = 401 /\ resp.message = "Token is missing!" /\ Untouched)
        /\ (authorization.present /\ ~Signed)
             => (resp.code = 401 /\ resp.message = "Token is invalid!" /\ Untouched)
        /\ (Signed /\ ~Unexpired)
             => (resp.code = 401 /\ resp.message = "Token has expired!" /\ Untouched)
        /\ (Signed /\ Unexpired)
             => /\ resp.code # 401
                /\ authorization.token \in tokens
                /\ req.current_user = authorization.token.user_id

\* a token login issued in this behaviour is refused once it has expired
C16_Witness ==
    /\ req.op \in TokenRoutes
    /\ Signed /\ ~Unexpired
    /\ authorization.token \notin SeedTokens
    /\ resp.message = "Token has expired!"

FlagSetBefore ==
    \E u \in before.users : u.id = authorization.token.user_id /\ u.is_admin

\* C17: on an admin-gated route a request with a good token runs the handler
\* exactly when the token's user has the admin flag in the store as the
\* request finds it; otherwise it is answered 403 (not the 401 of a bad
\* token) and nothing changes, also when the same token was let through
\* before the flag was cleared.
C17_AdminFlagReadEachCall ==
    (req.op \in AdminRoutes /\ Signed /\ Unexpired) =>
        /\ ~FlagSetBefore
             => /\ resp.code = 403
                /\ resp.message = "Admin access required"
                /\ Snapshot = before
                /\ resp.body = {}
        /\ FlagSetBefore
             => /\ resp.code \notin {401, 403}
                /\ authorization.token \in admitted

\* the token an admin-gated handler ran with is refused after the flag of
\* its user was cleared
C17_Witness ==
    /\ req.op \in AdminRoutes
    /\ authorization.token \in admitted
    /\ resp.code = 403
    /\ \E u \in users : u.id = authorization.token.user_id /\ ~u.is_admin

\* ---------------------------------------------------- attendance queries
\* request.args.get('limit', 500)
DefaultLimit == 500
\* get_employee_attendance_by_date has no LIMIT clause
NoLimit == 0

\* `WHERE user_id = %s` (no row whose user_id is NULL satisfies it)
EmployeesByUserId(emps, user_id) ==
    {e \in emps : e.user_id # NoId /\ e.user_id = user_id}

\* `WHERE LOWER(name) = LOWER(%s)`
EmployeesByName(emps, name) == {e \in emps : SqlEq(Lower(e.name), Lower(name))}

\* Strategy 1, 2, 3: the result set of the first SELECT that returns a row
MatchingEmployees(emps, user_data) ==
    IF EmployeesByUserId(emps, user_data.id) # {}
    THEN EmployeesByUserId(emps, user_data.id)
    ELSE IF EmployeesByEmail(emps, user_data.email) # {}
    THEN EmployeesByEmail(emps, user_data.email)
    ELSE EmployeesByName(emps, user_data.name)

\* The cursor is unbuffered (conn.cursor(dictionary=True), a connection with
\* neither buffered nor consume_results): fetchone() reads one row, and when
\* the SELECT returned more the next cursor.execute() raises
\* InternalError("Unread result found").
UnreadResult(rows) == Cardinality(rows) > 1

\* `record['check_out'] = '-'` of a row without a check-out time
Dash == -1

\* the columns of the SELECT, after the loop over the records
Record(r) ==
    [id |-> r.id, employee_id |-> r.employee_id, employee_name |-> r.employee_name,
     date |-> r.date, check_in |-> r.check_in,
     check_out |-> IF r.check_out = NoTime THEN Dash ELSE r.check_out,
     status |-> r.status]

\* ORDER BY date DESC, check_in DESC
NotOlder(a, b) == a.date > b.date \/ (a.date = b.date /\ a.check_in >= b.check_in)

\* LIMIT %s: the results the server can return
Limited(rows, limit) ==
    IF limit = NoLimit \/ Cardinality(rows) <= limit
    THEN {rows}
    ELSE {S \in SUBSET rows :
             /\ Cardinality(S) = limit
             /\ \A a \in S, b \in rows \ S : NotOlder(a, b)}

QueryRequest(op, current_user, limit, date) ==
    [NoRequest EXCEPT !.op = op, !.current_user = current_user, !.limit = limit,
                      !.date = date]

QueryError(op) == Response(op, 500, "An error occurred")

\* The body the two handlers share; rows are the rows of employee_attendance
\* the handler's SELECTs range over (all, or those of the date asked for).
AttendanceQuery(op, current_user, limit, date, rows) ==
    LET user_data == UserById(users, current_user)
        found == MatchingEmployees(employees, user_data)
        employee == FetchOne(found)
    IN  /\ nreq' = nreq + 1
        /\ req' = QueryRequest(op, current_user, limit, date)
        /\ before' = Snapshot
        /\ IF user_data.id = NoId
           THEN resp' = QueryError(op)
           ELSE IF user_data.is_admin
           THEN \E S \in Limited(rows, limit) :
                    resp' = Listing(op, {Record(r) : r \in S})
           ELSE IF found = {}
           THEN resp' = Listing(op, {})
           ELSE IF UnreadResult(found)
           THEN resp' = QueryError(op)
           ELSE \E S \in Limited({r \in rows : r.employee_id = employee.id}, limit) :
                    resp' = Listing(op, {Record(r) : r \in S})
        /\ UNCHANGED <<users, employees, employee_attendance, attendance, today,
                       ever_present, txn, collation, ever_deleted>>

\* GET /api/employee-attendance
GetEmployeeAttendance(current_user, limit) ==
    AttendanceQuery("get_employee_attendance", current_user, limit, 0,
                    employee_attendance)

\* GET /api/employee-attendance/date/<date_str>
GetEmployeeAttendanceByDate(current_user, date_str) ==
    AttendanceQuery("get_employee_attendance_by_date", current_user, NoLimit,
                    date_str, {r \in employee_attendance : r.date = date_str})

\* ----------------------------------------- SpecQry: the attendance queries
\* The owners check in and out on the server's clock, the admin adds
\* employees (a new name, or the name of an account there is), a newcomer
\* signs up, and the accounts, and a caller whose account is gone, ask for
\* the records.
NamesakeInputs ==
    {FreshData,
     [FreshData EXCEPT !.name = <<"b", "o">>],
     [FreshData EXCEPT !.name = <<"A", "l">>, !.email = <<"d">>,
                       !.employee_id = <<"0","0","0","0","0","4">>]}
LimitInputs == {1, DefaultLimit}

MarkTodayStep ==
    /\ Ready
    /\ UNCHANGED session
    /\ \E current_user \in {u.id : u \in users},
          employee_id \in {e.id : e \in employees},
          status \in {"present", "late"}, action \in {"check_in", "check_out"} :
         \E t \in IF MarkReachesClock(current_user, employee_id, status, action)
                  THEN ClockInputs ELSE NoTimeInput :
             MarkEmployeeAttendance(current_user, employee_id, status, action,
                                    NoTime, NoTime, t.now)
    /\ Served

AddNamesakeStep ==
    /\ Ready
    /\ UNCHANGED session
    /\ \E current_user \in {u.id : u \in users}, data \in NamesakeInputs :
         /\ AdminRequired(users, current_user, "add_employee") = Ok
         /\ AddEmployee(current_user, data)
    /\ Served

SignupNewStep ==
    /\ Ready
    /\ UNCHANGED session
    /\ Signup(NewSignup)
    /\ Served

GetEmployeeAttendanceStep ==
    /\ Ready
    /\ UNCHANGED session
    /\ \E current_user \in CallerIds, limit \in LimitInputs :
         GetEmployeeAttendance(current_user, limit)
    /\ Served

GetEmployeeAttendanceByDateStep ==
    /\ Ready
    /\ UNCHANGED session
    /\ \E current_user \in CallerIds, date_str \in Days :
         GetEmployeeAttendanceByDate(current_user, date_str)
    /\ Served

NextQry ==
    \/ MarkTodayStep
    \/ AddNamesakeStep
    \/ SignupNewStep
    \/ GetEmployeeAttendanceStep
    \/ GetEmployeeAttendanceByDateStep
    \/ NextDay
    \/ Forget

SpecQry == InitEmp /\ [][NextQry]_vars

\* ------------------------------------------- the attendance queries' claim
QueryOps == {"get_employee_attendance", "get_employee_attendance_by_date"}
QueryCaller == UserById(before.users, req.current_user)

\* the records the query ranges over: all, or those of the date in the path
QueryRows ==
    IF req.op = "get_employee_attendance_by_date"
    THEN {r \in before.employee_attendance : r.date = req.date}
    ELSE before.employee_attendance

\* the employees of the first rung of the fallback that has any: linked by
\* user id, else with the caller's email, else with the caller's name up to
\* case
Resolved ==
    LET linked == {e \in before.employees : e.user_id = QueryCaller.id}
        mailed == {e \in before.employees : SqlEq(e.email, QueryCaller.email)}
        named == {e \in before.employees : Lower(e.name) = Lower(QueryCaller.name)}
    IN  IF linked # {} THEN linked ELSE IF mailed # {} THEN mailed ELSE named

\* C20: a query by an account, with no limit of the client's own, is answered
\* 200; an admin gets every record (of the date asked for); another caller
\* gets the records of one employee of the first rung of the fallback that
\* matches, and the empty list when none does.
C20_AttendanceQueries ==
    (/\ req.op \in QueryOps
     /\ QueryCaller.id # NoId
     /\ req.limit \in {NoLimit, DefaultLimit})
        => /\ resp.code = 200
           /\ IF QueryCaller.is_admin
              THEN resp.body = {Record(r) : r \in QueryRows}
              ELSE IF Resolved = {}
              THEN resp.body = {}
              ELSE \E e \in Resolved :
                       resp.body =
                           {Record(r) : r \in {x \in QueryRows : x.employee_id = e.id}}

\* ------------------------------------------------ update_employee_status
\* `if status not in ['present', 'absent', 'late']`
QuickStatuses == {"present", "absent", "late"}

\* the checks on the request body
StatusValidate(status) ==
    IF status = NULL
    THEN Response("update_employee_status", 400, "Status is required")
    ELSE IF status \notin QuickStatuses
    THEN Response("update_employee_status", 400, "Invalid status")
    ELSE Ok

StatusRequest(current_user, employee_id, status) ==
    [NoRequest EXCEPT !.op = "update_employee_status", !.current_user = current_user,
                      !.employee_id = employee_id, !.status = status]

StatusSuccess ==
    Response("update_employee_status", 200, "Employee status updated successfully")

\* PUT /api/employees/<employee_id>/status: the decorator is token_required,
\* the handler does not look current_user up nor the employee
UpdateEmployeeStatus(current_user, employee_id, status) ==
    LET v == StatusValidate(status)
    IN  /\ nreq' = nreq + 1
        /\ req' = StatusRequest(current_user, employee_id, status)
        /\ before' = Snapshot
        /\ IF v # Ok
           THEN resp' = v /\ UNCHANGED employees
           ELSE /\ resp' = StatusSuccess
                /\ employees' = SetEmployeeStatus(employees, employee_id, status)
        /\ UNCHANGED <<users, employee_attendance, attendance, today, ever_present,
                       txn, collation, ever_deleted>>

\* -------------------- SpecStat: attendance marking and the status shortcut
UpdateEmployeeStatusStep ==
    /\ Ready
    /\ UNCHANGED session
    /\ \E current_user \in CallerIds, employee_id \in EmployeeIdInputs,
          status \in StatusInputs :
         UpdateEmployeeStatus(current_user, employee_id, status)
    /\ Served

NextStat == MarkStep \/ UpdateEmployeeStatusStep \/ Forget

SpecStat == InitAtt /\ [][NextStat]_vars

\* the employees whose status the request served last has changed
StatusChanged ==
    {e \in employees : \E b \in before.employees : b.id = e.id /\ b.status # e.status}

\* the caller's account has the employee's email, up to case and blanks
CallerOwns(e) ==
    \E u \in before.users :
        u.id = req.current_user /\ NormalizeEmail(u.email) = NormalizeEmail(e.email)

\* C21: whichever endpoint served the request, an employee whose status it
\* changed has the email of the caller's account.
C21_OnlyOwnerChangesStatus == \A e \in StatusChanged : CallerOwns(e)

\* ------------------------------ further claims about marking attendance
\* the statuses a check-in is to write
CheckInStatuses == {"present", "absent", "late"}

\* C22: a call with action check_in that is answered 200 leaves the row of
\* (employee, day) and the employee's status in present, absent or late; a
\* row or an employee becomes checked_out only by a call with action
\* check_out.
C22_CheckedOutOnlyByCheckOut ==
    (Marked /\ resp.code = 200 /\ req.action = "check_in")
        => /\ \A r \in RowsAfter : r.status \in CheckInStatuses
           /\ EmployeeStatusAfter \subseteq CheckInStatuses

\* ------------------------------------- further claims about the employees
\* the employees that had the email of the request's body
SameEmailBefore == {e \in before.employees : SqlEq(e.email, req.data.email)}

\* an admin's add_employee with a body that passes the checks on it
AddProcessed ==
    /\ req.op = "add_employee"
    /\ AdminRequired(before.users, req.current_user, "add_employee") = Ok
    /\ AddValidate(req.data) = Ok

\* C23: an admin's well-formed add_employee whose email is that of an
\* employee row, soft-deleted or not, is answered 409 and leaves employees
\* (the soft-deleted row included) and users as they were.
C23_AddRejectsKnownEmail ==
    (AddProcessed /\ SameEmailBefore # {})
        => /\ resp.code = 409
           /\ employees = before.employees
           /\ users = before.users

\* the email is that of an employee that had been soft-deleted
C23_Witness ==
    /\ AddProcessed
    /\ SameEmailBefore # {}
    /\ \A e \in SameEmailBefore : ~e.is_active
    /\ resp.code = 409

\* ----------------------------------------- claims about the status mirror
\* C24: within the day, an employee with a row for today has that row's
\* status as current status, whatever mark_employee_attendance and
\* update_employee_status calls were made.
C24_StatusMirrorsRow ==
    \A r \in employee_attendance, e \in employees :
        (r.date = today /\ r.employee_id = e.id) => e.status = r.status

\* ----------------------------------- claims about overlapping mark calls
\* C25: of overlapping requests, none that found a row and goes on to its
\* UPDATE writes absent or late (these are written by the INSERT of a new
\* row only), and a committed row that has once been present or checked_out
\* is never absent or late.
C25_MonotoneUnderInterleaving ==
    /\ \A w \in BagToSet(txn) :
          w.d.kind = "update" => w.d.status \notin {"absent", "late"}
    /\ \A r \in employee_attendance :
          <<r.employee_id, r.date>> \in ever_present =>
              r.status \notin {"absent", "late"}

\* ------------------------------------------- claims about refused marking
\* the current status of every employee
StatusOf(emps) == {<<e.id, e.status>> : e \in emps}

\* C26: a mark_employee_attendance call answered 400, 403 or 404 leaves
\* employee_attendance and every employee's current status as they were.
C26_RefusalChangesNothing ==
    (Marked /\ resp.code \in {400, 403, 404})
        => /\ employee_attendance = before.employee_attendance
           /\ StatusOf(employees) = StatusOf(before.employees)

\* a downgrade or a duplicate negative marking refused on an existing row
C26_Witness ==
    /\ Processed
    /\ resp.code = 400
    /\ RowsBefore # {}
    /\ req.action = "check_in"
    /\ employee_attendance = before.employee_attendance

\* --------------------------------- SpecDay: attendance marking, day by day
\* The accounts mark the employees on the server's clock, and midnight
\* passes.
MarkOnClockStep ==
    /\ Ready
    /\ UNCHANGED session
    /\ \E current_user \in {u.id : u \in users},
          employee_id \in {e.id : e \in employees},
          status \in StatusInputs, action \in ActionInputs :
         \E t \in IF MarkReachesClock(current_user, employee_id, status, action)
                  THEN ClockInputs ELSE NoTimeInput :
             MarkEmployeeAttendance(current_user, employee_id, status, action,
                                    NoTime, NoTime, t.now)
    /\ Served

NextDays == MarkOnClockStep \/ NextDay \/ Forget

SpecDay == InitAtt /\ [][NextDays]_vars

\* the rows of other employees and of other days
OtherRows(rows) ==
    {r \in rows : r.employee_id # req.employee_id \/ r.date # before.today}

\* the target employee's rows of earlier days
EarlierRows ==
    {r \in before.employee_attendance :
        r.employee_id = req.employee_id /\ r.date < before.today}

\* C27: a mark_employee_attendance call leaves the rows of other employees
\* and of other days as they were, and a check-in that finds no row of
\* (employee, today) is accepted and creates that row with the requested
\* status, whatever rows the employee has of earlier days.
C27_DayIsolation ==
    Marked =>
        /\ OtherRows(employee_attendance) = OtherRows(before.employee_attendance)
        /\ (Processed /\ req.action = "check_in" /\ RowsBefore = {})
              => /\ resp.code = 200
                 /\ \E r \in employee_attendance : RowsAfter = {r} /\ r.status = req.status

\* a check-in marked absent on the day after a day that ended checked_out
C27_Witness ==
    /\ Processed
    /\ req.action = "check_in"
    /\ req.status = "absent"
    /\ RowsBefore = {}
    /\ \E r \in EarlierRows : r.status = "checked_out" /\ r \in employee_attendance
    /\ \E r \in RowsAfter : r.status = "absent"

\* -------------------------------------------- claims about check-out time
\* C28: a row with a check-out time has status checked_out.
C28_CheckOutTimeMeansCheckedOut ==
    \A r \in employee_attendance : r.check_out # NoTime => r.status = "checked_out"

\* --------------------------- SpecLife: an employee's life, deletion included
\* Every operation that writes the employees table or employee_attendance:
\* add_employee, delete_employee, update_employee_status and
\* mark_employee_attendance.
NextLife ==
    \/ AddEmployeeStep
    \/ DeleteEmployeeStep
    \/ UpdateEmployeeStatusStep
    \/ MarkOnClockStep
    \/ Forget

SpecLife == InitAtt /\ [][NextLife]_vars

InactiveBefore == {e \in before.employees : ~e.is_active}
ActiveTargetBefore ==
    {e \in before.employees : e.id = req.employee_id /\ e.is_active}

\* C29: an employee row is inactive exactly when its deletion time is set;
\* an employee once soft-deleted stays inactive with the deletion time it
\* got; and an admin's delete_employee of an employee that is soft-deleted
\* or not on file is answered 404 and changes no employee row.
C29_SoftDeleteIsPermanent ==
    /\ \A e \in employees : (~e.is_active) <=> (e.deleted_at # NoTime)
    /\ \A id \in ever_deleted : \E e \in employees : e.id = id /\ ~e.is_active
    /\ \A b \in InactiveBefore :
          \E e \in employees :
              e.id = b.id /\ ~e.is_active /\ e.deleted_at = b.deleted_at
    /\ (req.op = "delete_employee" /\ CallerIsAdmin /\ ActiveTargetBefore = {})
          => resp.code = 404 /\ employees = before.employees

\* an admin deletes once more an employee deleted earlier, at a later time
C29_Witness ==
    /\ req.op = "delete_employee"
    /\ CallerIsAdmin
    /\ resp.code = 404
    /\ \E b \in InactiveBefore :
          /\ b.id = req.employee_id
          /\ b.id \in ever_deleted
          /\ b \in employees

\* C30: a request leaves the attendance rows and the current status of
\* every employee that was soft-deleted before it as they were.
C30_InactiveEmployeeUntouched ==
    \A b \in InactiveBefore :
        /\ {r \in employee_attendance : r.employee_id = b.id}
             = {r \in before.employee_attendance : r.employee_id = b.id}
        /\ \A e \in employees : e.id = b.id => e.status = b.status

====
